---- MODULE Spec2Model ----
(***************************************************************************)
(* Model of URuntimeImageLoader (the per-frame scheduler, game thread) and *)
(* URuntimeImageReader (the decode worker with its own thread).            *)
(*                                                                         *)
(* Two threads run the code: "GT", the game thread (LoadImageAsync,        *)
(* LoadHDRIAsync, LoadImageSync, CancelAll, both Tick functions,           *)
(* Deinitialize) and "WK", the FRunnableThread created in Initialize (Run).*)
(* BlockTillAllRequestsFinished is executed by WK from Run and by GT from  *)
(* LoadImageSync, so its steps are parameterised by the executing thread.  *)
(* Steps are cut at the accesses to memory shared between the two threads. *)
(***************************************************************************)
EXTENDS Integers, Sequences, FiniteSets, TLC

\* ------------------------------------------------------------------ bounds
\* Total number of requests (asynchronous and synchronous) ever created.
MaxRequests ==
    2

\* ------------------------------------------------------------------ inputs
GT == "GT"
WK == "WK"
Threads == {GT, WK}

\* The calls offered to the entry points: a file name and the bForUI flag of its
\* transform parameters. The decoder's answer for a file is stable
\* (ImportFileAsImage is an external collaborator).
LoadInputs ==
    {[file |-> "photo.png", bForUI |-> FALSE],
     [file |-> "icon.png", bForUI |-> TRUE],
     [file |-> "broken.png", bForUI |-> FALSE],
     [file |-> "odd.png", bForUI |-> FALSE]}

\* One file per raw image format the decoder can leave in ImageData.Format (and one
\* of a format the switch does not list), each with either value of bForUI.
FormatInputs ==
    [file : {"icon.png", "gray16.png", "photo.png", "sky.hdr", "deep.png",
             "float.exr", "odd.png"},
     bForUI : BOOLEAN]

\* FRuntimeImageUtils::ImportFileAsImage: the error it writes (empty on success).
ImportError(file) ==
    IF file = "broken.png" THEN "invalid header" ELSE ""

\* ImageData.Format left by ImportFileAsImage for a file that decodes.
ImportFormat(file) ==
    CASE file = "odd.png"    -> "Other"
      [] file = "icon.png"   -> "G8"
      [] file = "gray16.png" -> "G16"
      [] file = "sky.hdr"    -> "BGRE8"
      [] file = "deep.png"   -> "RGBA16"
      [] file = "float.exr"  -> "RGBA16F"
      [] OTHER               -> "BGRA8"

\* The switch on ImageData.Format: EPixelFormat chosen for a raw format.
PixelFormatOf(format, bForUI) ==
    CASE format = "G8"      -> (IF bForUI THEN "PF_B8G8R8A8" ELSE "PF_G8")
      [] format = "G16"     -> "PF_G16"
      [] format = "BGRA8"   -> "PF_B8G8R8A8"
      [] format = "BGRE8"   -> "PF_B8G8R8A8"
      [] format = "RGBA16"  -> (IF bForUI THEN "PF_B8G8R8A8" ELSE "PF_R16G16B16A16_SINT")
      [] format = "RGBA16F" -> "PF_FloatRGBA"
      [] OTHER              -> "PF_Unknown"

\* Compile-time platform switch of CancelAll and LoadHDRIAsync.
PLATFORM_ANDROID ==
    FALSE

\* ------------------------------------------------------------------- state
VARIABLES
    \* URuntimeImageLoader
    Requests,             \* TQueue<FLoadImageRequest>: sequence of request ids
    ActiveRequest,        \* id of the request in the slot, 0 when invalidated
    \* URuntimeImageReader
    ReaderRequests,       \* TQueue<FImageReadRequest> Requests of the reader
    Results,              \* TArray<FImageReadResult>
    bCompletedWork,       \* FThreadSafeBool
    bStopThread,          \* FThreadSafeBool
    ThreadSemaphore,      \* auto-reset FEvent: TRUE when signalled
    TextureConstructedSemaphore,
    ConstructTasks,       \* TQueue<FConstructTextureTask>
    ConstructedTextures,  \* TArray<UTexture2D*>: texture handles
    Textures,             \* the UTexture2D objects created so far, by handle
    \* threads
    pc,                   \* pc[t]: where thread t is
    Request,              \* Request[t]: local FImageReadRequest of the drain loop
    ReadResult,           \* ReadResult[t]: index the local reference points at
    IsEmptyRead,          \* IsEmptyRead[t]: value of Requests.IsEmpty() read at 179
    NewTexture,           \* NewTexture[t]: handle popped from ConstructedTextures
    SyncRequest,          \* id of the request of the running LoadImageSync, 0 if none
    SyncPhase,            \* which of its two BlockTillAllRequestsFinished calls runs
    crashed,              \* the process died on a fatal precondition violation
    \* history
    Created,              \* request id -> [file, kind, bForUI]
    Status,               \* request id -> lifecycle state of an async request
    Delivered,            \* request id -> result handed to the callback / returned
    Processed,            \* request id -> number of times a drain loop emplaced it
    Accepted,             \* request ids in the order AddRequest enqueued them
    Finished,             \* ids whose processing ran to its end (error or upload)
    SinceDispatch         \* what ended the previous dispatch: none/open/completed/cancelled

vars ==
    <<Requests, ActiveRequest, ReaderRequests, Results, bCompletedWork, bStopThread,
      ThreadSemaphore, TextureConstructedSemaphore, ConstructTasks,
      ConstructedTextures, Textures, pc, Request, ReadResult, IsEmptyRead,
      NewTexture, SyncRequest, SyncPhase, crashed, Created, Status, Delivered, Processed,
      Accepted,
      Finished, SinceDispatch>>

loaderVars ==
    <<Requests, ActiveRequest>>

readerVars ==
    <<ReaderRequests, Results, bCompletedWork, bStopThread, ThreadSemaphore,
      TextureConstructedSemaphore, ConstructTasks, ConstructedTextures, Textures>>

localVars ==
    <<Request, ReadResult, IsEmptyRead, NewTexture>>

syncVars ==
    <<SyncRequest, SyncPhase>>

historyVars ==
    <<Created, Status, Delivered, Processed, Accepted, Finished, SinceDispatch>>

\* A default-constructed FImageReadResult as Emplace_GetRef leaves it, with the
\* file name assigned at line 109.
NewResult(id) ==
    [id |-> id, ImageFilename |-> Created[id].file, OutError |-> "", OutTexture |-> 0]

\* What Pop reads from an empty array: no element of Results.
GarbageResult ==
    [id |-> 0, ImageFilename |-> "?", OutError |-> "?", OutTexture |-> 0]

\* FLoadImageRequest::IsRequestValid
IsRequestValid ==
    ActiveRequest # 0

\* URuntimeImageReader::IsWorkCompleted
IsWorkCompleted ==
    bCompletedWork

\* URuntimeImageReader constructed and Initialize()d, thread created and parked at
\* the top of Run; the loader's queue empty and its slot invalid. The initial
\* value of bCompletedWork is set in the class declaration: either value is allowed.
Init ==
    /\ Requests = <<>>
    /\ ActiveRequest = 0
    /\ ReaderRequests = <<>>
    /\ Results = <<>>
    /\ bCompletedWork \in BOOLEAN
    /\ bStopThread = FALSE
    /\ ThreadSemaphore = FALSE
    /\ TextureConstructedSemaphore = FALSE
    /\ ConstructTasks = <<>>
    /\ ConstructedTextures = <<>>
    /\ Textures = <<>>
    /\ pc = [t \in Threads |-> IF t = GT THEN "idle" ELSE "Run"]
    /\ Request = [t \in Threads |-> 0]
    /\ ReadResult = [t \in Threads |-> 0]
    /\ IsEmptyRead = [t \in Threads |-> FALSE]
    /\ NewTexture = [t \in Threads |-> 0]
    /\ SyncRequest = 0
    /\ SyncPhase = 0
    /\ crashed = FALSE
    /\ Created = <<>>
    /\ Status = <<>>
    /\ Delivered = <<>>
    /\ Processed = <<>>
    /\ Accepted = <<>>
    /\ Finished = {}
    /\ SinceDispatch = "none"

\* ------------------------------------------------------ URuntimeImageLoader
\* Identity of the next request built by an entry point.
NewId ==
    Len(Created) + 1

\* Bound on the number of requests.
CanCreate ==
    Len(Created) < MaxRequests

\* The game thread is between two calls (entry points run on it one at a time).
GTReady ==
    /\ ~crashed
    /\ pc[GT] = "idle"

\* History bookkeeping of a newly built request.
Create(file, kind, bForUI, status) ==
    /\ Created' = Append(Created, [file |-> file, kind |-> kind, bForUI |-> bForUI])
    /\ Status' = Append(Status, status)
    /\ Delivered' = Append(Delivered, <<>>)
    /\ Processed' = Append(Processed, 0)
    /\ UNCHANGED Accepted

\* The lambda bound to OnRequestCompleted: what the caller's out-parameters get.
\* For LoadHDRIAsync the field OutTexture stands for the caller's OutTextureCube,
\* copied from ReadResult.OutTextureCube, which the reader never assigns (0: null).
CallbackOutputs(kind, ReadRes) ==
    [bSuccess |-> (ReadRes.OutError = ""),
     OutTexture |-> (IF kind = "HDRI" THEN 0 ELSE ReadRes.OutTexture),
     OutError |-> ReadRes.OutError,
     ReadResult |-> ReadRes]

\* LoadImageAsync / LoadHDRIAsync: bind the callback and Requests.Enqueue(Request).
EnqueueAsync(file, kind, bForUI, contextValid) ==
    /\ GTReady
    /\ IF ~contextValid
       THEN UNCHANGED vars
       ELSE /\ CanCreate
            /\ Requests' = Append(Requests, NewId)
            /\ Create(file, kind, bForUI, "Queued")
            /\ UNCHANGED <<ActiveRequest, readerVars, pc, localVars, syncVars,
                           crashed, Finished, SinceDispatch>>

\* LoadImageAsync with a valid or invalid WorldContextObject.
LoadImageAsync ==
    \E in \in LoadInputs, contextValid \in BOOLEAN :
        EnqueueAsync(in.file, "2D", in.bForUI, contextValid)

\* LoadHDRIAsync: the same queue, a callback that hands out OutTextureCube.
LoadHDRIAsync ==
    \E in \in LoadInputs, contextValid \in BOOLEAN :
        IF PLATFORM_ANDROID
        THEN GTReady /\ UNCHANGED vars
        ELSE EnqueueAsync(in.file, "HDRI", in.bForUI, contextValid)

\* Variant: the first branch of Tick without the test of ActiveRequest.
TickDispatchesIgnoringActive ==
    Requests # <<>>

\* Condition of the first branch of Tick.
TickDispatches ==
    ~IsRequestValid /\ Requests # <<>>

\* Tick, first branch up to the Enqueue inside AddRequest.
TickDispatch ==
    /\ GTReady
    /\ TickDispatches
    /\ ActiveRequest' = Head(Requests)
    /\ Requests' = Tail(Requests)
    /\ ReaderRequests' = Append(ReaderRequests, Head(Requests))
    /\ Accepted' = Append(Accepted, Head(Requests))
    /\ Status' = [Status EXCEPT ![Head(Requests)] = "Dispatched"]
    /\ SinceDispatch' = "open"
    /\ pc' = [pc EXCEPT ![GT] = "Tick_AddRequest_flag"]
    /\ UNCHANGED <<Results, bCompletedWork, bStopThread, ThreadSemaphore,
                   TextureConstructedSemaphore, ConstructTasks, ConstructedTextures,
                   Textures, localVars, syncVars, crashed, Created, Delivered,
                   Processed, Finished>>

\* AddRequest, second statement, called from Tick.
TickAddRequestFlag ==
    /\ ~crashed
    /\ pc[GT] = "Tick_AddRequest_flag"
    /\ bCompletedWork' = FALSE
    /\ pc' = [pc EXCEPT ![GT] = "Tick_Trigger"]
    /\ UNCHANGED <<loaderVars, ReaderRequests, Results, bStopThread, ThreadSemaphore,
                   TextureConstructedSemaphore, ConstructTasks, ConstructedTextures,
                   Textures, localVars, syncVars, crashed, historyVars>>

\* ImageReader->Trigger() in Tick.
TickTrigger ==
    /\ ~crashed
    /\ pc[GT] = "Tick_Trigger"
    /\ ThreadSemaphore' = TRUE
    /\ pc' = [pc EXCEPT ![GT] = "Tick_check"]
    /\ UNCHANGED <<loaderVars, ReaderRequests, Results, bCompletedWork, bStopThread,
                   TextureConstructedSemaphore, ConstructTasks, ConstructedTextures,
                   Textures, localVars, syncVars, crashed, historyVars>>

\* URuntimeImageReader::GetResult: the outcomes of ensure + Results.Pop().
\* On an empty array the ensure fails and Pop is out of contract: the build
\* either stops on the range check or hands back no element of Results.
GetResultOutcomes ==
    IF Len(Results) > 0
    THEN {[OutResult |-> Results[Len(Results)],
           Results |-> SubSeq(Results, 1, Len(Results) - 1),
           crash |-> FALSE]}
    ELSE {[OutResult |-> GarbageResult, Results |-> Results, crash |-> c] :
              c \in BOOLEAN}

\* Tick, second branch (runs after the first branch or directly when the first
\* branch's condition is false).
TickComplete ==
    /\ ~crashed
    /\ \/ pc[GT] = "Tick_check"
       \/ pc[GT] = "idle" /\ ~TickDispatches
    /\ IF IsRequestValid /\ IsWorkCompleted
       THEN \E o \in GetResultOutcomes :
              /\ Results' = o.Results
              /\ crashed' = o.crash
              /\ IF o.crash
                 THEN UNCHANGED <<ActiveRequest, historyVars>>
                 ELSE /\ Delivered' = [Delivered EXCEPT ![ActiveRequest] =
                            <<CallbackOutputs(Created[ActiveRequest].kind, o.OutResult)>>]
                      /\ Status' = [Status EXCEPT ![ActiveRequest] = "Completed"]
                      /\ SinceDispatch' = "completed"
                      /\ ActiveRequest' = 0
                      /\ UNCHANGED <<Created, Processed, Accepted, Finished>>
       ELSE UNCHANGED <<ActiveRequest, Results, crashed, historyVars>>
    /\ pc' = [pc EXCEPT ![GT] = "idle"]
    /\ UNCHANGED <<Requests, ReaderRequests, bCompletedWork, bStopThread,
                   ThreadSemaphore, TextureConstructedSemaphore, ConstructTasks,
                   ConstructedTextures, Textures, localVars, syncVars>>

\* Variant: an Empty() that leaves the queue as it is.
NotEmptied(queue) ==
    queue

\* TQueue::Empty(), as CancelAll and Clear call it.
Emptied(queue) ==
    <<>>

\* Status after CancelAll of the requests it drops.
Cancelled(id) ==
    IF id = ActiveRequest THEN "DiscardedActive"
    ELSE IF \E i \in 1..Len(Requests) : Requests[i] = id THEN "DiscardedQueued"
    ELSE Status[id]

\* CancelAll up to and including the first statement of Clear.
CancelAll ==
    /\ GTReady
    /\ IF PLATFORM_ANDROID
       THEN UNCHANGED vars
       ELSE /\ Requests' = Emptied(Requests)
            /\ ActiveRequest' = 0
            /\ ReaderRequests' = Emptied(ReaderRequests)
            /\ Status' = [id \in 1..Len(Status) |-> Cancelled(id)]
            /\ SinceDispatch' = IF IsRequestValid THEN "cancelled" ELSE SinceDispatch
            /\ pc' = [pc EXCEPT ![GT] = "CancelAll_Clear_results"]
            /\ UNCHANGED <<Results, bCompletedWork, bStopThread, ThreadSemaphore,
                           TextureConstructedSemaphore, ConstructTasks,
                           ConstructedTextures, Textures, localVars, syncVars,
                           crashed, Created, Delivered, Processed, Accepted, Finished>>

\* URuntimeImageReader::Clear, second statement: Results.Empty().
ClearResults ==
    /\ ~crashed
    /\ pc[GT] \in {"CancelAll_Clear_results", "Deinitialize_Clear_results"}
    /\ Results' = <<>>
    /\ pc' = [pc EXCEPT ![GT] = IF pc[GT] = "CancelAll_Clear_results"
                                 THEN "idle" ELSE "Stop"]
    /\ UNCHANGED <<loaderVars, ReaderRequests, bCompletedWork, bStopThread,
                   ThreadSemaphore, TextureConstructedSemaphore, ConstructTasks,
                   ConstructedTextures, Textures, localVars, syncVars, crashed,
                   historyVars>>

\* FRuntimeImageUtils::CreateDummyTexture called by thread t.
DummyTexture(file, format, t) ==
    [ImageFilename |-> file, PixelFormat |-> format, by |-> t, SizeSet |-> FALSE,
     Resource |-> FALSE, DataFormat |-> "", SRGB |-> FALSE, RHIFormat |-> ""]

\* URuntimeImageReader::Tick (game thread): build the placeholder of every posted task.
RECURSIVE ConstructAll(_, _, _)
ConstructAll(tasks, constructed, textures) ==
    IF tasks = <<>>
    THEN [constructed |-> constructed, textures |-> textures]
    ELSE ConstructAll(Tail(tasks),
                      Append(constructed, Len(textures) + 1),
                      Append(textures, DummyTexture(Head(tasks).ImageFilename,
                                                    Head(tasks).PixelFormat, GT)))

ReaderTick ==
    /\ GTReady
    /\ IF ~bStopThread /\ ConstructTasks # <<>>
       THEN LET r == ConstructAll(ConstructTasks, ConstructedTextures, Textures) IN
            /\ ConstructedTextures' = r.constructed
            /\ Textures' = r.textures
            /\ ConstructTasks' = <<>>
            /\ TextureConstructedSemaphore' = TRUE
       ELSE UNCHANGED <<ConstructTasks, ConstructedTextures, Textures,
                        TextureConstructedSemaphore>>
    /\ UNCHANGED <<loaderVars, ReaderRequests, Results, bCompletedWork, bStopThread,
                   ThreadSemaphore, pc, localVars, syncVars, crashed, historyVars>>

\* URuntimeImageLoader::Deinitialize -> URuntimeImageReader::Deinitialize: Clear().
Deinitialize ==
    /\ GTReady
    /\ ReaderRequests' = Emptied(ReaderRequests)
    /\ pc' = [pc EXCEPT ![GT] = "Deinitialize_Clear_results"]
    /\ UNCHANGED <<loaderVars, Results, bCompletedWork, bStopThread, ThreadSemaphore,
                   TextureConstructedSemaphore, ConstructTasks, ConstructedTextures,
                   Textures, localVars, syncVars, crashed, historyVars>>

\* Stop without its Trigger(): the flag is raised but the thread is not woken.
StopWithoutTrigger ==
    /\ ~crashed
    /\ pc[GT] = "Stop"
    /\ bStopThread' = TRUE
    /\ pc' = [pc EXCEPT ![GT] = "Stop_WaitForCompletion"]
    /\ UNCHANGED <<loaderVars, ReaderRequests, Results, bCompletedWork, ThreadSemaphore,
                   TextureConstructedSemaphore, ConstructTasks, ConstructedTextures,
                   Textures, localVars, syncVars, crashed, historyVars>>

\* URuntimeImageReader::Stop: raise the flag and wake the thread.
Stop ==
    /\ ~crashed
    /\ pc[GT] = "Stop"
    /\ bStopThread' = TRUE
    /\ ThreadSemaphore' = TRUE
    /\ pc' = [pc EXCEPT ![GT] = "Stop_WaitForCompletion"]
    /\ UNCHANGED <<loaderVars, ReaderRequests, Results, bCompletedWork,
                   TextureConstructedSemaphore, ConstructTasks, ConstructedTextures,
                   Textures, localVars, syncVars, crashed, historyVars>>

\* Thread->WaitForCompletion() returns once Run has returned.
StopJoin ==
    /\ ~crashed
    /\ pc[GT] = "Stop_WaitForCompletion"
    /\ pc[WK] = "exited"
    /\ pc' = [pc EXCEPT ![GT] = "deinitialized"]
    /\ UNCHANGED <<loaderVars, readerVars, localVars, syncVars, crashed,
                   historyVars>>

\* ------------------------------------------------------ URuntimeImageReader
\* Where thread t continues when BlockTillAllRequestsFinished returns.
ReturnTo(t) ==
    IF t = WK THEN "Run"
    ELSE IF SyncPhase = 1 THEN "Sync_AddRequest" ELSE "Sync_GetResult"

\* The reference ReadResult of thread t still denotes the element it emplaced.
RefIntact(t) ==
    /\ ReadResult[t] \in 1..Len(Results)
    /\ Results[ReadResult[t]].id = Request[t]

\* Results after thread t stores OutError through its reference. The element may
\* have been popped or the array emptied meanwhile (the reference dangles): the
\* store is then lost, or lands in whichever element now occupies that slot.
StoreOutError(t, error) ==
    LET hit == [Results EXCEPT ![ReadResult[t]].OutError = error] IN
    IF RefIntact(t) THEN {hit}
    ELSE IF ReadResult[t] \in 1..Len(Results) THEN {Results, hit}
    ELSE {Results}

\* The same for the store to OutTexture.
StoreOutTexture(t, texture) ==
    LET hit == [Results EXCEPT ![ReadResult[t]].OutTexture = texture] IN
    IF RefIntact(t) THEN {hit}
    ELSE IF ReadResult[t] \in 1..Len(Results) THEN {Results, hit}
    ELSE {Results}

\* Run: the loop condition.
Run ==
    /\ ~crashed
    /\ pc[WK] = "Run"
    /\ pc' = [pc EXCEPT ![WK] = IF bStopThread THEN "exited" ELSE "Run_Wait"]
    /\ UNCHANGED <<loaderVars, readerVars, localVars, syncVars, crashed, historyVars>>

\* Run: ThreadSemaphore->Wait() returns when the event is signalled and resets it.
RunWait ==
    /\ ~crashed
    /\ pc[WK] = "Run_Wait"
    /\ ThreadSemaphore
    /\ ThreadSemaphore' = FALSE
    /\ pc' = [pc EXCEPT ![WK] = "Block_while"]
    /\ UNCHANGED <<loaderVars, ReaderRequests, Results, bCompletedWork, bStopThread,
                   TextureConstructedSemaphore, ConstructTasks, ConstructedTextures,
                   Textures, localVars, syncVars, crashed, historyVars>>

\* BlockTillAllRequestsFinished: the outer loop condition.
BlockWhile(t) ==
    /\ ~crashed
    /\ pc[t] = "Block_while"
    /\ pc' = [pc EXCEPT ![t] = IF ~bCompletedWork /\ ~bStopThread
                                THEN "Block_Dequeue" ELSE ReturnTo(t)]
    /\ UNCHANGED <<loaderVars, readerVars, localVars, syncVars, crashed, historyVars>>

\* The inner loop condition: Requests.Dequeue(Request).
BlockDequeue(t) ==
    /\ ~crashed
    /\ pc[t] = "Block_Dequeue"
    /\ IF ReaderRequests # <<>>
       THEN /\ Request' = [Request EXCEPT ![t] = Head(ReaderRequests)]
            /\ ReaderRequests' = Tail(ReaderRequests)
            /\ pc' = [pc EXCEPT ![t] = "Block_Emplace"]
       ELSE /\ pc' = [pc EXCEPT ![t] = "Block_IsEmpty"]
            /\ UNCHANGED <<Request, ReaderRequests>>
    /\ UNCHANGED <<loaderVars, Results, bCompletedWork, bStopThread, ThreadSemaphore,
                   TextureConstructedSemaphore, ConstructTasks, ConstructedTextures,
                   Textures, ReadResult, IsEmptyRead, NewTexture, syncVars, crashed,
                   historyVars>>

\* Results.Emplace_GetRef() and the assignment of ImageFilename.
BlockEmplace(t) ==
    /\ ~crashed
    /\ pc[t] = "Block_Emplace"
    /\ Results' = Append(Results, NewResult(Request[t]))
    /\ ReadResult' = [ReadResult EXCEPT ![t] = Len(Results) + 1]
    /\ Processed' = [Processed EXCEPT ![Request[t]] = @ + 1]
    /\ UNCHANGED Accepted
    /\ pc' = [pc EXCEPT ![t] = "Block_Import"]
    /\ UNCHANGED <<loaderVars, ReaderRequests, bCompletedWork, bStopThread,
                   ThreadSemaphore, TextureConstructedSemaphore, ConstructTasks,
                   ConstructedTextures, Textures, Request, IsEmptyRead, NewTexture,
                   syncVars, crashed, Created, Status, Delivered, Finished,
                   SinceDispatch>>

\* The error a request ends with before any texture is asked for ("" if none).
RequestError(id) ==
    LET file == Created[id].file IN
    IF ImportError(file) # "" THEN ImportError(file)
    ELSE IF PixelFormatOf(ImportFormat(file), Created[id].bForUI) = "PF_Unknown"
         THEN "Image data is corrupted. Please contact devs"
         ELSE ""

\* ImportFileAsImage, the pixel format switch, and either the `continue` of a
\* failed request, CreateDummyTexture on the game thread, or the posted task.
BlockImport(t) ==
    /\ ~crashed
    /\ pc[t] = "Block_Import"
    /\ LET id == Request[t]
           file == Created[id].file
           format == PixelFormatOf(ImportFormat(file), Created[id].bForUI)
       IN
       IF RequestError(id) # ""
       THEN /\ Results' \in StoreOutError(t, RequestError(id))
            /\ Finished' = Finished \cup {id}
            /\ pc' = [pc EXCEPT ![t] = "Block_Dequeue"]
            /\ UNCHANGED <<ConstructTasks, ConstructedTextures, Textures>>
       ELSE IF t = GT
       THEN /\ Textures' = Append(Textures, DummyTexture(file, format, t))
            /\ ConstructedTextures' = Append(ConstructedTextures, Len(Textures) + 1)
            /\ pc' = [pc EXCEPT ![t] = "Block_CheckConstructed"]
            /\ UNCHANGED <<Results, ConstructTasks, Finished>>
       ELSE /\ ConstructTasks' = Append(ConstructTasks,
                                        [ImageFilename |-> file, PixelFormat |-> format])
            /\ pc' = [pc EXCEPT ![t] = "Block_Wait"]
            /\ UNCHANGED <<Results, ConstructedTextures, Textures, Finished>>
    /\ UNCHANGED <<loaderVars, ReaderRequests, bCompletedWork, bStopThread,
                   ThreadSemaphore, TextureConstructedSemaphore, localVars, syncVars,
                   crashed, Created, Status, Delivered, Processed, Accepted, SinceDispatch>>

\* TextureConstructedSemaphore->Wait(100): signalled (and reset) or timed out.
BlockWait(t) ==
    /\ ~crashed
    /\ pc[t] = "Block_Wait"
    /\ TextureConstructedSemaphore' = FALSE
    /\ pc' = [pc EXCEPT ![t] = IF TextureConstructedSemaphore
                                THEN "Block_CheckConstructed" ELSE "Block_WaitTimedOut"]
    /\ UNCHANGED <<loaderVars, ReaderRequests, Results, bCompletedWork, bStopThread,
                   ThreadSemaphore, ConstructTasks, ConstructedTextures, Textures,
                   localVars, syncVars, crashed, historyVars>>

\* After a timed-out wait: && !bStopThread.
BlockWaitTimedOut(t) ==
    /\ ~crashed
    /\ pc[t] = "Block_WaitTimedOut"
    /\ pc' = [pc EXCEPT ![t] = IF bStopThread
                                THEN "Block_CheckConstructed" ELSE "Block_Wait"]
    /\ UNCHANGED <<loaderVars, readerVars, localVars, syncVars, crashed, historyVars>>

\* if (ConstructedTextures.Num() == 0) return; otherwise Pop, store the handle in
\* the result and set the placeholder's size.
BlockCheckConstructed(t) ==
    /\ ~crashed
    /\ pc[t] = "Block_CheckConstructed"
    /\ IF ConstructedTextures = <<>>
       THEN /\ pc' = [pc EXCEPT ![t] = ReturnTo(t)]
            /\ UNCHANGED <<Results, ConstructedTextures, Textures, NewTexture>>
       ELSE LET texture == ConstructedTextures[Len(ConstructedTextures)] IN
            /\ ConstructedTextures' =
                   SubSeq(ConstructedTextures, 1, Len(ConstructedTextures) - 1)
            /\ Results' \in StoreOutTexture(t, texture)
            /\ Textures' = [Textures EXCEPT ![texture].SizeSet = TRUE]
            /\ NewTexture' = [NewTexture EXCEPT ![t] = texture]
            /\ pc' = [pc EXCEPT ![t] = "Block_Upload"]
    /\ UNCHANGED <<loaderVars, ReaderRequests, bCompletedWork, bStopThread,
                   ThreadSemaphore, TextureConstructedSemaphore, ConstructTasks,
                   Request, ReadResult, IsEmptyRead, syncVars, crashed, historyVars>>

\* The bForUI re-encoding and AsyncReallocateTexture: both render-thread hops are
\* waited for, then NewTexture->SetResource. DataFormat is the layout of the bytes
\* handed to RHIAsyncCreateTexture2D, RHIFormat the pixel format it is given.
BlockUpload(t) ==
    /\ ~crashed
    /\ pc[t] = "Block_Upload"
    /\ LET id == Request[t]
           raw == ImportFormat(Created[id].file)
           bForUI == Created[id].bForUI
       IN Textures' = [Textures EXCEPT ![NewTexture[t]] =
                          [@ EXCEPT !.Resource = TRUE,
                                    !.DataFormat = IF bForUI THEN "BGRA8" ELSE raw,
                                    !.SRGB = bForUI,
                                    !.RHIFormat = PixelFormatOf(raw, bForUI)]]
    /\ Finished' = Finished \cup {Request[t]}
    /\ pc' = [pc EXCEPT ![t] = "Block_Dequeue"]
    /\ UNCHANGED <<loaderVars, ReaderRequests, Results, bCompletedWork, bStopThread,
                   ThreadSemaphore, TextureConstructedSemaphore, ConstructTasks,
                   ConstructedTextures, localVars, syncVars, crashed, Created, Status,
                   Delivered, Processed, Accepted, SinceDispatch>>

\* Line 179, the argument: Requests.IsEmpty().
BlockIsEmpty(t) ==
    /\ ~crashed
    /\ pc[t] = "Block_IsEmpty"
    /\ IsEmptyRead' = [IsEmptyRead EXCEPT ![t] = (ReaderRequests = <<>>)]
    /\ pc' = [pc EXCEPT ![t] = "Block_SetCompleted"]
    /\ UNCHANGED <<loaderVars, readerVars, Request, ReadResult, NewTexture, syncVars,
                   crashed, historyVars>>

\* Line 179, the store: bCompletedWork.AtomicSet(<value read>).
BlockSetCompleted(t) ==
    /\ ~crashed
    /\ pc[t] = "Block_SetCompleted"
    /\ bCompletedWork' = IsEmptyRead[t]
    /\ pc' = [pc EXCEPT ![t] = "Block_while"]
    /\ UNCHANGED <<loaderVars, ReaderRequests, Results, bStopThread, ThreadSemaphore,
                   TextureConstructedSemaphore, ConstructTasks, ConstructedTextures,
                   Textures, localVars, syncVars, crashed, historyVars>>

BlockTillAllRequestsFinished(t) ==
    \/ BlockWhile(t)
    \/ BlockDequeue(t)
    \/ BlockEmplace(t)
    \/ BlockImport(t)
    \/ BlockWait(t)
    \/ BlockWaitTimedOut(t)
    \/ BlockCheckConstructed(t)
    \/ BlockUpload(t)
    \/ BlockIsEmpty(t)
    \/ BlockSetCompleted(t)

\* ------------------------------------------------------------ LoadImageSync
\* LoadImageSync up to the first BlockTillAllRequestsFinished call.
LoadImageSyncCall(in) ==
    /\ GTReady
    /\ CanCreate
    /\ Create(in.file, "Sync", in.bForUI, "Sync")
    /\ SyncRequest' = NewId
    /\ SyncPhase' = 1
    /\ pc' = [pc EXCEPT ![GT] = "Block_while"]
    /\ UNCHANGED <<loaderVars, readerVars, localVars, crashed, Finished,
                   SinceDispatch>>

LoadImageSync ==
    \E in \in LoadInputs : LoadImageSyncCall(in)

\* ImageReader->AddRequest(ReadRequest), first statement.
SyncAddRequest ==
    /\ ~crashed
    /\ pc[GT] = "Sync_AddRequest"
    /\ ReaderRequests' = Append(ReaderRequests, SyncRequest)
    /\ Accepted' = Append(Accepted, SyncRequest)
    /\ pc' = [pc EXCEPT ![GT] = "Sync_AddRequest_flag"]
    /\ UNCHANGED <<loaderVars, Results, bCompletedWork, bStopThread, ThreadSemaphore,
                   TextureConstructedSemaphore, ConstructTasks, ConstructedTextures,
                   Textures, localVars, syncVars, crashed, Created, Status, Delivered,
                   Processed, Finished, SinceDispatch>>

\* AddRequest, second statement; then the second BlockTillAllRequestsFinished.
SyncAddRequestFlag ==
    /\ ~crashed
    /\ pc[GT] = "Sync_AddRequest_flag"
    /\ bCompletedWork' = FALSE
    /\ SyncPhase' = 2
    /\ pc' = [pc EXCEPT ![GT] = "Block_while"]
    /\ UNCHANGED <<loaderVars, ReaderRequests, Results, bStopThread, ThreadSemaphore,
                   TextureConstructedSemaphore, ConstructTasks, ConstructedTextures,
                   Textures, localVars, SyncRequest, crashed, historyVars>>

\* ImageReader->GetResult(ReadResult) and the out-parameters of LoadImageSync.
SyncGetResult ==
    /\ ~crashed
    /\ pc[GT] = "Sync_GetResult"
    /\ \E o \in GetResultOutcomes :
         /\ Results' = o.Results
         /\ crashed' = o.crash
         /\ IF o.crash
            THEN UNCHANGED <<pc, syncVars, historyVars>>
            ELSE /\ Delivered' = [Delivered EXCEPT ![SyncRequest] =
                                     <<CallbackOutputs("Sync", o.OutResult)>>]
                 /\ Status' = [Status EXCEPT ![SyncRequest] = "SyncReturned"]
                 /\ SyncRequest' = 0
                 /\ SyncPhase' = 0
                 /\ pc' = [pc EXCEPT ![GT] = "idle"]
                 /\ UNCHANGED <<Created, Processed, Accepted, Finished, SinceDispatch>>
    /\ UNCHANGED <<loaderVars, ReaderRequests, bCompletedWork, bStopThread,
                   ThreadSemaphore, TextureConstructedSemaphore, ConstructTasks,
                   ConstructedTextures, Textures, localVars>>

\* --------------------------------------------------------------- the system
Next ==
    \/ LoadImageAsync
    \/ LoadHDRIAsync
    \/ LoadImageSync
    \/ SyncAddRequest
    \/ SyncAddRequestFlag
    \/ SyncGetResult
    \/ TickDispatch
    \/ TickAddRequestFlag
    \/ TickTrigger
    \/ TickComplete
    \/ CancelAll
    \/ ClearResults
    \/ ReaderTick
    \/ Deinitialize
    \/ Stop
    \/ StopJoin
    \/ Run
    \/ RunWait
    \/ \E t \in Threads : BlockTillAllRequestsFinished(t)

Spec ==
    Init /\ [][Next]_vars

\* The worker thread is scheduled fairly: a step of Run that stays possible is
\* eventually taken (the waits on the render thread inside the upload end).
WorkerStep ==
    Run \/ RunWait \/ BlockTillAllRequestsFinished(WK)

SpecFair ==
    Spec /\ WF_vars(WorkerStep)

\* ------------------------------------------- the pixel format of one request
\* LoadImageSync offered every raw format with either bForUI.
LoadImageSyncAnyFormat ==
    \E in \in FormatInputs : LoadImageSyncCall(in)

\* The synchronous path alone: the game thread loads one image after another and
\* runs the whole drain loop itself, while the worker sleeps in Run.
NextFormat ==
    \/ LoadImageSyncAnyFormat
    \/ SyncAddRequest
    \/ SyncAddRequestFlag
    \/ SyncGetResult
    \/ Run
    \/ BlockWhile(GT)
    \/ BlockDequeue(GT)
    \/ BlockEmplace(GT)
    \/ BlockImport(GT)
    \/ BlockCheckConstructed(GT)
    \/ BlockUpload(GT)
    \/ BlockIsEmpty(GT)
    \/ BlockSetCompleted(GT)

SpecFormat ==
    Init /\ [][NextFormat]_vars

\* ================================================================== claims
AsyncIds ==
    {id \in 1..Len(Created) : Created[id].kind # "Sync"}

IsDiscarded(status) ==
    status \in {"DiscardedQueued", "DiscardedActive"}

\* A step in which Tick dequeues a request into the ActiveRequest slot.
DispatchStep ==
    /\ ActiveRequest' # ActiveRequest
    /\ ActiveRequest' # 0

\* The requests that are dispatched and not yet completed or discarded.
InFlight ==
    {id \in AsyncIds : Status[id] = "Dispatched"}

\* C1 as stated: at most one request is in the ActiveRequest slot, and a Tick
\* dispatches only if no earlier dispatch exists or the previous dispatch was
\* ended by a Tick that executed the callback and invalidated the slot.
C1_OnlyCompletionBetweenDispatches ==
    [][DispatchStep => SinceDispatch \in {"none", "completed"}]_vars

\* C1 amended: at most one request is in flight and it is the one in the
\* ActiveRequest slot; between two dispatching Ticks the previous dispatch was
\* ended by a completion (callback executed, slot invalidated) or by CancelAll.
C1_SingleActiveRequest ==
    /\ [](InFlight = (IF ActiveRequest = 0 THEN {} ELSE {ActiveRequest}))
    /\ [][DispatchStep => SinceDispatch \in {"none", "completed", "cancelled"}]_vars

\* A second request sits in the slot after the first one was completed.
C1_Witness ==
    /\ ActiveRequest # 0
    /\ SinceDispatch = "open"
    /\ \E id \in AsyncIds : Status[id] = "Completed"

\* Number of completion callbacks executed / requests enqueued / dropped.
CallbacksExecuted ==
    Cardinality({id \in AsyncIds : Delivered[id] # <<>>})

Enqueued ==
    Cardinality(AsyncIds)

RemovedBeforeDispatch ==
    Cardinality({id \in AsyncIds : Status[id] = "DiscardedQueued"})

RemovedWhileActive ==
    Cardinality({id \in AsyncIds : Status[id] = "DiscardedActive"})

\* Pending queue empty, slot invalid, reader reports idle.
Quiescent ==
    /\ Requests = <<>>
    /\ ~IsRequestValid
    /\ IsWorkCompleted
    /\ pc[GT] = "idle"

\* C2 as stated: when quiescent, callbacks executed = enqueued - removed from the
\* pending queue by CancelAll before dispatch.
C2_CallbacksEqualEnqueuedMinusPending ==
    Quiescent => CallbacksExecuted = Enqueued - RemovedBeforeDispatch

\* C2 amended: when quiescent, callbacks executed = enqueued - removed from the
\* pending queue by CancelAll - requests that were in the ActiveRequest slot when
\* CancelAll invalidated it.
C2_CallbacksEqualEnqueuedMinusCancelled ==
    Quiescent =>
        CallbacksExecuted = Enqueued - RemovedBeforeDispatch - RemovedWhileActive

\* Quiescent after one callback ran, one pending and one active request were dropped.
C2_Witness ==
    /\ Quiescent
    /\ CallbacksExecuted >= 1
    /\ RemovedBeforeDispatch + RemovedWhileActive >= 1

\* The lifecycle steps of one request.
StrictLifecycle(from, to) ==
    \/ from = to
    \/ from = "Queued" /\ to = "Dispatched"
    \/ from = "Dispatched" /\ to = "Completed"
    \/ from = "Dispatched" /\ IsDiscarded(to)

Lifecycle(from, to) ==
    \/ StrictLifecycle(from, to)
    \/ from = "Queued" /\ to = "DiscardedQueued"

\* A step that is Tick's completion branch / CancelAll.
IsTickCompleteStep ==
    /\ pc[GT] \in {"idle", "Tick_check"}
    /\ pc'[GT] = "idle"
    /\ IsRequestValid
    /\ IsWorkCompleted
    /\ ActiveRequest' = 0

IsCancelAllStep ==
    /\ pc[GT] = "idle"
    /\ pc'[GT] = "CancelAll_Clear_results"

\* What C3 says beside the shape of the lifecycle: one callback per request,
\* Completed only by Tick's completion branch, Discarded only by CancelAll, and a
\* request enters the reader through Tick only when it leaves Queued.
LifecycleCauses(id) ==
    /\ (Delivered[id] # <<>> => Delivered'[id] = Delivered[id])
    /\ (Delivered'[id] # Delivered[id] =>
            Status[id] = "Dispatched" /\ Status'[id] = "Completed")
    /\ (Status'[id] = "Completed" /\ Status[id] # "Completed" =>
            IsTickCompleteStep /\ ActiveRequest = id)
    /\ (IsDiscarded(Status'[id]) /\ ~IsDiscarded(Status[id]) => IsCancelAllStep)
    /\ (Status'[id] = "Dispatched" /\ Status[id] # "Dispatched" =>
            /\ ActiveRequest' = id
            /\ ReaderRequests' = Append(ReaderRequests, id))

\* C3 as stated: every asynchronous request moves Queued -> Dispatched ->
\* (Completed or Discarded) and by no other step, with the causes above.
C3_StrictLifecycle ==
    [][\A id \in AsyncIds :
          /\ StrictLifecycle(Status[id], Status'[id])
          /\ LifecycleCauses(id)]_vars

\* C3 amended: as stated, except that CancelAll also discards the requests still
\* in the pending queue, which go Queued -> Discarded without being dispatched.
C3_Lifecycle ==
    [][\A id \in AsyncIds :
          /\ Lifecycle(Status[id], Status'[id])
          /\ LifecycleCauses(id)]_vars

\* One request completed, one discarded while active, at the same time.
C3_Witness ==
    /\ \E id \in AsyncIds : Status[id] = "Completed" /\ Delivered[id] # <<>>
    /\ \E id \in AsyncIds : Status[id] = "DiscardedActive"

\* C8: once CancelAll has dropped a request (pending or active at that time), no
\* later step executes its completion callback or revives it; callbacks run only
\* for requests that CancelAll did not drop.
C8_NoCallbackAfterCancelAll ==
    [][\A id \in AsyncIds :
          IsDiscarded(Status[id]) =>
              /\ Status'[id] = Status[id]
              /\ Delivered[id] = <<>>
              /\ Delivered'[id] = <<>>]_vars

\* A request enqueued after CancelAll got its callback while the dropped ones
\* (here the one that was active) got none.
C8_Witness ==
    \E a, b \in AsyncIds :
        /\ a < b
        /\ Status[a] = "DiscardedActive"
        /\ Delivered[a] = <<>>
        /\ Status[b] = "Completed"
        /\ Delivered[b] # <<>>

\* The FImageReadResult handed to the callback of / returned for request id.
DeliveredResult(id) ==
    Delivered[id][1].ReadResult

\* The same, after the step.
DeliveredResultAfter(id) ==
    Delivered'[id][1].ReadResult

\* C4: whenever Tick executed a request's completion callback, the result passed
\* has the request's file name and is the result produced by processing that
\* request.
C4_CallbackGetsOwnResult ==
    \A id \in AsyncIds :
        Delivered[id] # <<>> =>
            /\ DeliveredResult(id).id = id
            /\ DeliveredResult(id).ImageFilename = Created[id].file

\* Thread t is between Dequeue and the end of the processing of request id.
Processing(t, id) ==
    /\ Request[t] = id
    /\ pc[t] \in {"Block_Emplace", "Block_Import", "Block_Wait", "Block_WaitTimedOut",
                  "Block_CheckConstructed", "Block_Upload"}

\* The step in which LoadImageSync returns.
SyncReturnStep ==
    /\ pc[GT] = "Sync_GetResult"
    /\ pc'[GT] = "idle"

\* C5: when LoadImageSync returns, the processing of its own request has
\* finished, the reader reports idle, and the result returned has the file name
\* that was asked for.
C5_SyncReturnsOwnFinishedResult ==
    [][SyncReturnStep =>
          /\ SyncRequest \in Finished
          /\ IsWorkCompleted
          /\ DeliveredResultAfter(SyncRequest).ImageFilename = Created[SyncRequest].file]_vars

\* The game thread's next step calls GetResult: LoadImageSync is past its second
\* drain, or Tick is at (or, called now, would take) its completion branch.
GetResultReached ==
    /\ ~crashed
    /\ \/ pc[GT] = "Sync_GetResult"
       \/ /\ pc[GT] \in {"Tick_check", "idle"}
          /\ IsRequestValid
          /\ IsWorkCompleted

\* C6: whenever GetResult is reached, Results holds at least one element.
C6_GetResultNeverOnEmptyResults ==
    GetResultReached => Len(Results) > 0

\* Exactly one of the texture handle and the error text is present.
ExactlyOneOfTextureAndError(result) ==
    (result.OutTexture # 0) # (result.OutError # "")

\* A step that hands a result to request id's callback or returns it from
\* LoadImageSync.
DeliveryStep(id) ==
    /\ Delivered[id] = <<>>
    /\ Delivered'[id] # <<>>

\* C7: every result handed to a callback or returned by LoadImageSync carries
\* exactly one of texture and error, and belongs to a request whose processing
\* (decode, construction wait, upload) has ended.
C7_DeliveredResultsAreFinished ==
    [][\A id \in 1..Len(Created) :
          DeliveryStep(id) =>
              /\ ExactlyOneOfTextureAndError(DeliveredResultAfter(id))
              /\ DeliveredResultAfter(id).id \in Finished]_vars

\* The game thread is between the two statements of AddRequest.
InsideAddRequest ==
    pc[GT] \in {"Tick_AddRequest_flag", "Sync_AddRequest_flag"}

\* C9: while bCompletedWork is true (and no AddRequest call is half way) the
\* reader's FIFO is empty and no thread is in the middle of processing a request.
C9_CompletedMeansIdle ==
    bCompletedWork /\ ~InsideAddRequest =>
        /\ ReaderRequests = <<>>
        /\ \A t \in Threads : \A id \in 1..Len(Created) : ~Processing(t, id)

\* Thread t executes the step that follows Emplace for a request whose decode
\* fails or whose format has no pixel format.
FailedRequestStep(t) ==
    /\ pc[t] = "Block_Import"
    /\ pc'[t] # "Block_Import"
    /\ RequestError(Request[t]) # ""

\* C10: processing a request that fails to decode or to map leaves a result with
\* the error and no texture, posts no construction task, creates and uploads no
\* texture, and continues the drain loop at the next Dequeue (so the requests
\* queued behind it are still taken, and line 179 is still reached when the FIFO
\* is found empty).
C10_FailedRequestIsLocal ==
    [][\A t \in Threads :
          FailedRequestStep(t) =>
              /\ pc'[t] = "Block_Dequeue"
              /\ ConstructTasks' = ConstructTasks
              /\ ConstructedTextures' = ConstructedTextures
              /\ Textures' = Textures
              /\ UNCHANGED <<ReaderRequests, bCompletedWork>>
              /\ \A i \in 1..Len(Results') :
                    Results'[i].id = Request[t] =>
                        /\ Results'[i].OutError = RequestError(Request[t])
                        /\ Results'[i].OutTexture = 0]_vars

\* A step in which thread t finishes the upload of its request's texture.
UploadStep(t) ==
    pc[t] = "Block_Upload" /\ pc'[t] = "Block_Dequeue"

\* The layout of the bytes a texture of the given pixel format is made of.
LayoutOf(PixelFormat) ==
    CASE PixelFormat = "PF_B8G8R8A8"          -> "BGRA8"
      [] PixelFormat = "PF_G8"                -> "G8"
      [] PixelFormat = "PF_G16"               -> "G16"
      [] PixelFormat = "PF_R16G16B16A16_SINT" -> "RGBA16"
      [] PixelFormat = "PF_FloatRGBA"         -> "RGBA16F"
      [] OTHER                                -> "none"

\* C11: whatever raw format was decoded, the texture uploaded for a bForUI request
\* has pixel format PF_B8G8R8A8, is marked SRGB, and is given bytes re-encoded
\* into that same layout: the placeholder's format, the format handed to the
\* upload and the layout of the bytes agree.
C11_UITextureIsBGRA8 ==
    [][\A t \in Threads :
          (UploadStep(t) /\ Created[Request[t]].bForUI) =>
              LET tex == Textures'[NewTexture[t]] IN
              /\ tex.PixelFormat = "PF_B8G8R8A8"
              /\ tex.RHIFormat = "PF_B8G8R8A8"
              /\ tex.SRGB
              /\ LayoutOf(tex.RHIFormat) = tex.DataFormat]_vars

\* AddRequest enqueued request a before request b.
AcceptedBefore(a, b) ==
    \E i, j \in 1..Len(Accepted) : i < j /\ Accepted[i] = a /\ Accepted[j] = b

\* A step in which thread t starts processing the request it dequeued, by emplacing
\* its result.
EmplaceStep(t) ==
    pc[t] = "Block_Emplace" /\ pc'[t] = "Block_Import"

\* No request starts being processed while one accepted before it is still waiting
\* for its own result to be emplaced.
ReaderInOrder ==
    \A t \in Threads :
        EmplaceStep(t) =>
            \A u \in Threads \ {t} :
                pc[u] = "Block_Emplace" => ~AcceptedBefore(Request[u], Request[t])

\* When a callback is executed, every asynchronous request created before its
\* request has had its callback or was cancelled.
CallbacksInOrder ==
    IsTickCompleteStep =>
        \A id \in AsyncIds :
            id < ActiveRequest => Status[id] \notin {"Queued", "Dispatched"}

\* The number of callbacks executed so far, over all requests.
RECURSIVE CallbackCount(_, _)
CallbackCount(delivered, id) ==
    IF id = 0 THEN 0
    ELSE CallbackCount(delivered, id - 1)
         + (IF Created[id].kind # "Sync" THEN Len(delivered[id]) ELSE 0)

OneCallbackPerTick ==
    CallbackCount(Delivered', Len(Created)) <= CallbackCount(Delivered, Len(Created)) + 1

\* C12: FIFO order is kept end to end: the reader starts processing requests in
\* the order AddRequest accepted them, the callbacks of asynchronous requests are
\* executed in the order the requests were created, and one step of Tick executes
\* at most one callback.
C12_FifoEndToEnd ==
    [][ReaderInOrder /\ CallbacksInOrder /\ OneCallbackPerTick]_vars

\* The request of a result was cancelled by CancelAll (id 0: no request's result).
OfCancelledRequest(result) ==
    result.id # 0 /\ IsDiscarded(Status[result.id])

\* C13: once CancelAll has returned, Results holds no entry of a cancelled request,
\* whichever step of its processing the worker was at, and no result of a cancelled
\* request is ever handed out for a different request.
C13_CancelledResultIsDiscarded ==
    /\ pc[GT] # "CancelAll_Clear_results" =>
           \A i \in 1..Len(Results) : ~OfCancelledRequest(Results[i])
    /\ \A id \in 1..Len(Delivered) :
           \A k \in 1..Len(Delivered[id]) :
               LET result == Delivered[id][k].ReadResult IN
               result.id # id => ~OfCancelledRequest(result)

\* Thread t is inside the body of the outer loop of BlockTillAllRequestsFinished.
InDrainLoop(t) ==
    pc[t] \in {"Block_Dequeue", "Block_Emplace", "Block_Import", "Block_Wait",
               "Block_WaitTimedOut", "Block_CheckConstructed", "Block_Upload",
               "Block_IsEmpty", "Block_SetCompleted"}

\* C14: the game thread and the worker are never both inside the drain loop, so
\* the reader's FIFO has one consumer and Results one writer at a time, and no
\* request is processed more than once.
C14_OneThreadDrains ==
    /\ ~(InDrainLoop(GT) /\ InDrainLoop(WK))
    /\ \A id \in 1..Len(Processed) : Processed[id] <= 1

\* C15: at most one construction task is outstanding: ConstructTasks holds at most
\* one task, ConstructedTextures at most one placeholder not yet popped, and no
\* trigger of TextureConstructedSemaphore is still pending when the worker is
\* about to post the task of a later request.
C15_OneConstructionTaskOutstanding ==
    /\ Len(ConstructTasks) <= 1
    /\ Len(ConstructedTextures) <= 1
    /\ pc[WK] = "Block_Import" => ~TextureConstructedSemaphore

\* A step in which thread t finds no placeholder and returns from
\* BlockTillAllRequestsFinished in the middle of its request.
AbortStep(t) ==
    /\ pc[t] = "Block_CheckConstructed"
    /\ ConstructedTextures = <<>>
    /\ pc'[t] = ReturnTo(t)

\* C16: when the worker gives up its wait because the stop flag was raised and no
\* placeholder is there, it publishes nothing: Results has no entry of the aborted
\* request, bCompletedWork is left as it was, and no texture was uploaded for it.
C16_AbortPublishesNothing ==
    [][(AbortStep(WK) /\ bStopThread) =>
          /\ \A i \in 1..Len(Results') : Results'[i].id # Request[WK]
          /\ bCompletedWork' = bCompletedWork
          /\ Request[WK] \notin Finished']_vars

\* C17: once Stop has raised bStopThread, the worker eventually returns from Run,
\* whatever it was doing: sleeping on ThreadSemaphore, draining the FIFO, or
\* polling TextureConstructedSemaphore.
C17_StopTerminatesWorker ==
    bStopThread ~> (pc[WK] = "exited")

\* Shutdown completed although the worker was stopped while it polled for a
\* placeholder: its construction task is still posted.
C17_Witness ==
    /\ pc[GT] = "deinitialized"
    /\ pc[WK] = "exited"
    /\ ConstructTasks # <<>>

\* The worker sleeps in ThreadSemaphore->Wait() and no trigger is pending.
WorkerAsleep ==
    pc[WK] = "Run_Wait" /\ ~ThreadSemaphore

\* Request id is still in the reader's FIFO.
InReaderFifo(id) ==
    \E i \in 1..Len(ReaderRequests) : ReaderRequests[i] = id

\* C18: no wake-up is lost: once Tick has dispatched a request (AddRequest and
\* Trigger done) and while neither CancelAll nor Stop has touched it, the request
\* is not left in the reader's FIFO with the worker asleep and bCompletedWork true.
C18_NoLostWakeUp ==
    ~(/\ pc[GT] = "idle"
      /\ IsRequestValid
      /\ InReaderFifo(ActiveRequest)
      /\ WorkerAsleep
      /\ bCompletedWork
      /\ ~bStopThread)

\* A step in which thread t pops a placeholder for the request it is processing.
PopPlaceholderStep(t) ==
    pc[t] = "Block_CheckConstructed" /\ pc'[t] = "Block_Upload"

\* C19: the placeholder a request pops from ConstructedTextures was constructed
\* for that request: it has the request's file name and the pixel format chosen
\* for it, whether it was built for the worker's task or on the synchronous path.
C19_PopsOwnPlaceholder ==
    [][\A t \in Threads :
          PopPlaceholderStep(t) =>
              LET texture == Textures[NewTexture'[t]]
                  request == Created[Request[t]]
              IN /\ texture.ImageFilename = request.file
                 /\ texture.PixelFormat =
                        PixelFormatOf(ImportFormat(request.file), request.bForUI)]_vars

\* C20: whenever the callback bound by LoadHDRIAsync gets a result with an empty
\* error, the cube map handle it passes on is a valid texture: the caller never
\* has bSuccess = true with a null OutTextureCube.
C20_HDRISuccessHasTextureCube ==
    \A id \in 1..Len(Created) :
        Created[id].kind = "HDRI" =>
            \A k \in 1..Len(Delivered[id]) :
                Delivered[id][k].bSuccess => Delivered[id][k].OutTexture # 0

====
